---- MODULE Spec2Model ----
(***************************************************************************)
(* Food Forest Planner (src/app.js): the planning grid, the placement      *)
(* rules, the compatibility analysis, the scores and the economic          *)
(* projection, as a state machine over the React state of the two          *)
(* components FoodForestPlanner and EconomicAnalysisTool.                   *)
(*                                                                         *)
(* Scheduling.  An event handler runs to completion against the values of  *)
(* the last render (its closure); its setState calls are batched and       *)
(* become visible together.  After the commit React runs, in one pass and  *)
(* against the values of that commit, every effect one of whose            *)
(* dependencies changed (child component first); what those effects set    *)
(* is batched again, and so on until no dependency changed.  The variable  *)
(* pending holds the dependencies that changed in the last commit; user    *)
(* events are taken only when it is empty.                                 *)
(*                                                                         *)
(* Numbers.  JavaScript numbers are modelled exactly: amounts that the     *)
(* code divides are rationals <<numerator, denominator>> in lowest terms;  *)
(* gridSize, which the code can make NaN, is Num(v) or NaN.                *)
(***************************************************************************)
EXTENDS Integers, Sequences, FiniteSets, TLC

----------------------------------------------------------------------------
(* Bounds of the model *)

\* placed instances on the whole grid (a plant click beyond it is not taken)
MaxPlants == 3
\* the same, where the density caps are to be reached
MaxCapPlants == 8
\* the same, where the land size is changed
MaxLandPlants == 2
\* the same, where forest age and costs are changed
MaxEconPlants == 2
\* the same, where the cells are inspected
MaxInspectPlants == 3
\* the same, where every cost is cleared
MaxRoiPlants == 1

----------------------------------------------------------------------------
(* Program constants *)

ACRE_TO_SQ_FT == 43560
CELL_AREA == 9 * 9

\* a JavaScript number that may be NaN (gridSize): Num(v) or NaN
Num(v) == [nan |-> FALSE, val |-> v]
NaN == [nan |-> TRUE, val |-> 0]

\* null (no plant selected, no plant in the modal)
Null == [id |-> 0]

----------------------------------------------------------------------------
(* Rational arithmetic for the JavaScript numbers the code divides *)

RECURSIVE GCD(_, _)
GCD(a, b) == IF b = 0 THEN a ELSE GCD(b, a % b)

Abs(n) == IF n < 0 THEN -n ELSE n

\* n / d for d > 0, in lowest terms
Rat(n, d) == LET g == GCD(Abs(n), d) IN <<n \div g, d \div g>>

RInt(n) == <<n, 1>>
RAdd(p, q) == Rat(p[1] * q[2] + q[1] * p[2], p[2] * q[2])
RSub(p, q) == Rat(p[1] * q[2] - q[1] * p[2], p[2] * q[2])
RMul(p, q) == Rat(p[1] * q[1], p[2] * q[2])
RLeq(p, q) == p[1] * q[2] <= q[1] * p[2]
RMin(p, q) == IF RLeq(p, q) THEN p ELSE q
\* Math.floor
RFloor(p) == p[1] \div p[2]

\* Math.floor(Math.sqrt(n)) for an integer n >= 0
RECURSIVE FloorSqrtFrom(_, _)
FloorSqrtFrom(n, r) == IF (r + 1) * (r + 1) > n THEN r ELSE FloorSqrtFrom(n, r + 1)

----------------------------------------------------------------------------
(* The species catalog.  plantDatabase is imported from a file outside     *)
(* src/; these records are a sample of it: the two species of the          *)
(* specification's scenario, and two whose companion listing is one-sided  *)
(* (Yam lists Hazel, Hazel does not list Yam) and names a species that is   *)
(* not in the catalog (Ginger); and four more, so that every one of the    *)
(* seven layers has a species and one layer has two.                       *)

plantDatabase ==
    << [id |-> 1, name |-> "Mango", layer |-> "Canopy", climate |-> "Tropical",
        companions |-> <<"Lemongrass">>,
        yieldPerYear |-> 50, maturityAge |-> 5, marketPrice |-> 2],
       [id |-> 2, name |-> "Lemongrass", layer |-> "Herbaceous", climate |-> "Tropical",
        companions |-> <<"Mango">>,
        yieldPerYear |-> 10, maturityAge |-> 1, marketPrice |-> 1],
       [id |-> 3, name |-> "Hazel", layer |-> "Shrub", climate |-> "Temperate",
        companions |-> <<>>,
        yieldPerYear |-> 6, maturityAge |-> 3, marketPrice |-> 4],
       [id |-> 4, name |-> "Yam", layer |-> "Root", climate |-> "Subtropical",
        companions |-> <<"Hazel", "Ginger">>,
        yieldPerYear |-> 7, maturityAge |-> 2, marketPrice |-> 3],
       [id |-> 5, name |-> "Papaya", layer |-> "Sub-canopy", climate |-> "Tropical",
        companions |-> <<>>,
        yieldPerYear |-> 30, maturityAge |-> 2, marketPrice |-> 1],
       [id |-> 6, name |-> "Clover", layer |-> "Ground Cover", climate |-> "Temperate",
        companions |-> <<>>,
        yieldPerYear |-> 1, maturityAge |-> 1, marketPrice |-> 1],
       [id |-> 7, name |-> "Passionfruit", layer |-> "Vine", climate |-> "Subtropical",
        companions |-> <<>>,
        yieldPerYear |-> 12, maturityAge |-> 2, marketPrice |-> 3],
       [id |-> 8, name |-> "Basil", layer |-> "Herbaceous", climate |-> "Tropical",
        companions |-> <<>>,
        yieldPerYear |-> 2, maturityAge |-> 1, marketPrice |-> 5] >>

Range(s) == {s[i] : i \in DOMAIN s}

\* the whole catalog
AllPlants == Range(plantDatabase)

\* the species that are planted where the number of instances is what is
\* explored: the first four of the catalog
Plants == {plantDatabase[i] : i \in 1 .. 4}

Layers == {"Canopy", "Sub-canopy", "Shrub", "Herbaceous", "Ground Cover", "Vine", "Root"}

Climates == {"Tropical", "Subtropical", "Temperate"}

Tools == {"plant", "eraser", "info"}

\* array.includes(v)
Includes(array, v) == \E i \in DOMAIN array : array[i] = v

----------------------------------------------------------------------------
(* gridState: a JavaScript object from the key `${x},${y}` to the array of  *)
(* plants of the cell.  Object.values and Object.entries go through the    *)
(* keys in the order they were inserted, so the object is the sequence of  *)
(* its entries [key, plants] in insertion order; the key is the pair       *)
(* <<x, y>>.                                                               *)

HasKey(grid, key) == \E i \in DOMAIN grid : grid[i].key = key

KeyIndex(grid, key) == CHOOSE i \in DOMAIN grid : grid[i].key = key

\* prevState[key] || []
PlantsAt(grid, key) == IF HasKey(grid, key) THEN grid[KeyIndex(grid, key)].plants ELSE <<>>

RECURSIVE Flatten(_)
\* Object.values(gridState).flat()
Flatten(grid) == IF grid = <<>> THEN <<>> ELSE Head(grid).plants \o Flatten(Tail(grid))

\* array.filter(p => p.layer === layer).length
LayerCount(plants, layer) == Cardinality({i \in DOMAIN plants : plants[i].layer = layer})

\* Capacity with a fault: the table is not consulted, every layer gets the default
CapacityDefaultOnly(layer) == 7

\* layerCapacity[selectedPlant.layer] || 7
Capacity(layer) ==
    CASE layer = "Canopy" -> 1
      [] layer = "Shrub" -> 4
      [] layer = "Root" -> 7
      [] OTHER -> 7

\* { ...prevState, [key]: value }: an existing key keeps its place, a new key goes last
SetKey(grid, key, value) ==
    IF HasKey(grid, key)
    THEN [grid EXCEPT ![KeyIndex(grid, key)] = [key |-> key, plants |-> value]]
    ELSE Append(grid, [key |-> key, plants |-> value])

\* PlaceUpdater with a fault: the new plant goes first, [selectedPlant, ...currentPlants]
PlaceUpdaterPrepend(prevState, key, selectedPlant) ==
    LET currentPlants == PlantsAt(prevState, key)
        capacity == Capacity(selectedPlant.layer)
    IN IF LayerCount(currentPlants, selectedPlant.layer) < capacity
       THEN SetKey(prevState, key, <<selectedPlant>> \o currentPlants)
       ELSE prevState

\* the updater of the plant tool (setGridState(prevState => ...))
PlaceUpdater(prevState, key, selectedPlant) ==
    LET currentPlants == PlantsAt(prevState, key)
        capacity == Capacity(selectedPlant.layer)
    IN IF LayerCount(currentPlants, selectedPlant.layer) < capacity
       THEN SetKey(prevState, key, Append(currentPlants, selectedPlant))
       ELSE prevState

\* EraseUpdater with a fault: the eraser takes the most recent plant of the cell only
EraseUpdaterLast(prevState, key) ==
    LET plants == PlantsAt(prevState, key)
    IN IF Len(plants) <= 1
       THEN SelectSeq(prevState, LAMBDA e : e.key # key)
       ELSE SetKey(prevState, key, SubSeq(plants, 1, Len(plants) - 1))

\* EraseUpdater with a fault: the cell is emptied but keeps its key, { ...prevState, [key]: [] }
EraseUpdaterKeepKey(prevState, key) == SetKey(prevState, key, <<>>)

\* the updater of the eraser: const { [key]: _, ...newState } = prevState
EraseUpdater(prevState, key) == SelectSeq(prevState, LAMBDA e : e.key # key)

----------------------------------------------------------------------------
(* Compatibility Analyzer *)

RECURSIVE PairList(_, _, _)
\* the pairs <<i, j>>, i < j <= n, in the order of the two nested loops
PairList(n, i, j) ==
    IF i > n THEN <<>>
    ELSE IF j > n THEN PairList(n, i + 1, i + 2)
    ELSE <<(<<i, j>>)>> \o PairList(n, i, j + 1)

\* A finding is the pair of names of the message
\* `${plant1.name} and ${plant2.name} ...` (its fixed text is left out).
Findings(plantList, pairs) ==
    [k \in DOMAIN pairs |-> <<plantList[pairs[k][1]].name, plantList[pairs[k][2]].name>>]

analyzePlantCompatibility(grid) ==
    LET plantList == Flatten(grid)
        pairs == PairList(Len(plantList), 1, 2)
        good(p) == Includes(plantList[p[1]].companions, plantList[p[2]].name)
        neither(p) == /\ ~Includes(plantList[p[1]].companions, plantList[p[2]].name)
                      /\ ~Includes(plantList[p[2]].companions, plantList[p[1]].name)
    IN [compatibilityReport |-> Findings(plantList, SelectSeq(pairs, good)),
        incompatiblePairs |-> Findings(plantList, SelectSeq(pairs, LAMBDA p : ~good(p) /\ neither(p))) ]

\* Object.values(gridState).flat().map(plant => plant.name)
PlacedNames(grid) == LET plantList == Flatten(grid) IN [i \in DOMAIN plantList |-> plantList[i].name]

\* plant.companions for an element of selectedPlants.  updateCompanionSuggestions
\* passes the NAMES of the placed plants, and a string has no property
\* `companions`: the value is undefined.
CompanionsOfSelected(plant) == [defined |-> FALSE, value |-> <<>>]

RECURSIVE AddCompanions(_, _, _)
\* plant.companions.forEach(companion => { if (!selectedPlants.includes(companion)) suggestions.add(companion) })
\* suggestions: the Set, as the sequence of its elements in insertion order
AddCompanions(suggestions, companions, selectedPlants) ==
    IF companions = <<>> THEN suggestions
    ELSE LET companion == Head(companions)
             next == IF ~Includes(selectedPlants, companion) /\ ~Includes(suggestions, companion)
                     THEN Append(suggestions, companion)
                     ELSE suggestions
         IN AddCompanions(next, Tail(companions), selectedPlants)

RECURSIVE SuggestFrom(_, _, _)
SuggestFrom(suggestions, rest, selectedPlants) ==
    IF rest = <<>> THEN suggestions
    ELSE LET c == CompanionsOfSelected(Head(rest))
             next == IF c.defined
                     THEN AddCompanions(suggestions, c.value, selectedPlants)
                     ELSE suggestions
         IN SuggestFrom(next, Tail(rest), selectedPlants)

getCompanionSuggestions(selectedPlants) == SuggestFrom(<<>>, selectedPlants, selectedPlants)

----------------------------------------------------------------------------
(* Scoring Engine *)

\* MaturityFactor with a fault: the quotient is not capped, forestAge / plant.maturityAge
MaturityFactorUncapped(age, maturityAge) == Rat(age, maturityAge)

\* Math.min(1, forestAge / plant.maturityAge)
MaturityFactor(age, maturityAge) == RMin(RInt(1), Rat(age, maturityAge))

RECURSIVE TotalYield(_, _)
TotalYield(plants, age) ==
    IF plants = <<>> THEN RInt(0)
    ELSE RAdd(RMul(RInt(Head(plants).yieldPerYear), MaturityFactor(age, Head(plants).maturityAge)),
              TotalYield(Tail(plants), age))

RECURSIVE TotalIncome(_, _)
TotalIncome(plants, age) ==
    IF plants = <<>> THEN RInt(0)
    ELSE RAdd(RMul(RMul(RInt(Head(plants).yieldPerYear), MaturityFactor(age, Head(plants).maturityAge)),
                   RInt(Head(plants).marketPrice)),
              TotalIncome(Tail(plants), age))

calculateProfit(grid, age) ==
    LET totalIncome == TotalIncome(Flatten(grid), age)
        setupCost == 1000
        annualCost == 500
        totalCost == setupCost + (annualCost * age)
    IN RSub(RMul(totalIncome, RInt(age)), RInt(totalCost))

Min(a, b) == IF a <= b THEN a ELSE b
Max(a, b) == IF a >= b THEN a ELSE b

RECURSIVE VerticalSum(_, _)
\* Object.values(layerCounts).reduce((score, count) => score + Math.min(count, 5) * 10, 0)
VerticalSum(plants, layers) ==
    IF layers = {} THEN 0
    ELSE LET l == CHOOSE x \in layers : TRUE
         IN Min(LayerCount(plants, l), 5) * 10 + VerticalSum(plants, layers \ {l})

\* BiodiversityOf with a fault: the bonus is given at six layers, layersUsed === 6
BiodiversityBonusAtSix(uniqueSpecies, layersUsed) ==
    uniqueSpecies * 10 + (IF layersUsed = 6 THEN 50 ELSE 0)

\* uniqueSpecies * 10 + (layersUsed === 7 ? 50 : 0)
BiodiversityOf(uniqueSpecies, layersUsed) ==
    uniqueSpecies * 10 + (IF layersUsed = 7 THEN 50 ELSE 0)

\* what calculateScores sets (and, as total, returns), from the gridState and
\* forestAge it is called with
calculateScores(grid, age) ==
    LET plants == Flatten(grid)
        uniqueSpecies == Cardinality({plants[i].name : i \in DOMAIN plants})
        layersUsed == Cardinality({plants[i].layer : i \in DOMAIN plants})
        newBiodiversityScore == BiodiversityOf(uniqueSpecies, layersUsed)
        newYieldScore == RFloor(TotalYield(plants, age))
        newVerticalScore == VerticalSum(plants, {plants[i].layer : i \in DOMAIN plants})
    IN [biodiversityScore |-> newBiodiversityScore,
        yieldScore |-> newYieldScore,
        verticalScore |-> newVerticalScore,
        profit |-> calculateProfit(grid, age),
        total |-> newBiodiversityScore + newYieldScore + newVerticalScore]

----------------------------------------------------------------------------
(* Economic Projector *)

\* plantDatabase.find(p => p.id === plant.id)
FindById(id) ==
    IF \E i \in DOMAIN plantDatabase : plantDatabase[i].id = id
    THEN plantDatabase[CHOOSE i \in DOMAIN plantDatabase : plantDatabase[i].id = id]
    ELSE Null

RECURSIVE IncomeFrom(_, _, _)
\* the forEach of calculateIncome; newIncome is a function from names to amounts
IncomeFrom(newIncome, plants, age) ==
    IF plants = <<>> THEN newIncome
    ELSE LET dbPlant == FindById(Head(plants).id)
             maturityFactor == MaturityFactor(age, dbPlant.maturityAge)
             annualYield == RMul(RInt(dbPlant.yieldPerYear), maturityFactor)
             plantIncome == RMul(annualYield, RInt(dbPlant.marketPrice))
             old == IF dbPlant.name \in DOMAIN newIncome THEN newIncome[dbPlant.name] ELSE RInt(0)
             next == IF dbPlant = Null THEN newIncome
                     ELSE [n \in DOMAIN newIncome \cup {dbPlant.name} |->
                              IF n = dbPlant.name THEN RAdd(old, plantIncome) ELSE newIncome[n]]
         IN IncomeFrom(next, Tail(plants), age)

EmptyMap == [n \in {} |-> 0]

calculateIncome(grid, age) == IncomeFrom(EmptyMap, Flatten(grid), age)

RECURSIVE SumMap(_, _)
\* Object.values(costs).reduce((sum, val) => sum + val, 0), for numbers
SumMap(f, keys) ==
    IF keys = {} THEN 0
    ELSE LET k == CHOOSE x \in keys : TRUE IN f[k] + SumMap(f, keys \ {k})

RECURSIVE SumRatMap(_, _)
\* the same for the amounts of income
SumRatMap(f, keys) ==
    IF keys = {} THEN RInt(0)
    ELSE LET k == CHOOSE x \in keys : TRUE IN RAdd(f[k], SumRatMap(f, keys \ {k}))

\* calculateNetProfit with a fault: the guard looks at the setup costs,
\* totalSetupCosts > 0 ? ... : 0
calculateNetProfitSetupGuard(inc, setup, annual, age) ==
    LET totalIncome == SumRatMap(inc, DOMAIN inc)
        totalSetupCosts == SumMap(setup, DOMAIN setup)
        totalAnnualCosts == SumMap(annual, DOMAIN annual)
        profitPerYear == RSub(totalIncome, RInt(totalAnnualCosts))
        newNetProfit == RSub(RMul(profitPerYear, RInt(age)), RInt(totalSetupCosts))
        totalCosts == totalSetupCosts + totalAnnualCosts * age
        newRoi == IF totalSetupCosts > 0
                  THEN RMul(Rat(newNetProfit[1], newNetProfit[2] * totalCosts), RInt(100))
                  ELSE RInt(0)
    IN [netProfit |-> newNetProfit, roi |-> newRoi]

\* what calculateNetProfit sets, from the income, costs and forestAge of its closure
calculateNetProfit(inc, setup, annual, age) ==
    LET totalIncome == SumRatMap(inc, DOMAIN inc)
        totalSetupCosts == SumMap(setup, DOMAIN setup)
        totalAnnualCosts == SumMap(annual, DOMAIN annual)
        profitPerYear == RSub(totalIncome, RInt(totalAnnualCosts))
        newNetProfit == RSub(RMul(profitPerYear, RInt(age)), RInt(totalSetupCosts))
        totalCosts == totalSetupCosts + totalAnnualCosts * age
        newRoi == IF totalCosts > 0
                  THEN RMul(Rat(newNetProfit[1], newNetProfit[2] * totalCosts), RInt(100))
                  ELSE RInt(0)
    IN [netProfit |-> newNetProfit, roi |-> newRoi]

----------------------------------------------------------------------------
(* Grid size *)

\* Math.max(v, 1), v a number or NaN
MathMax1(v) == IF v.nan THEN NaN ELSE Num(Max(v.val, 1))

\* the newGridSize of updateGridSize
NewGridSize(mode, acres, length, width) ==
    IF mode = "acre"
    THEN LET squareFeet == acres * ACRE_TO_SQ_FT
         IN MathMax1(IF squareFeet < 0
                     THEN NaN   \* Math.sqrt of a negative number
                     ELSE Num(FloorSqrtFrom(squareFeet \div CELL_AREA, 0)))
    ELSE MathMax1(Num(Min(length, width) \div 9))

\* updateGridSize with a fault: the grid is reset only when the grid size changes
updateGridSizeKeep(grid, size, mode, acres, length, width) ==
    LET newGridSize == NewGridSize(mode, acres, length, width)
    IN [gridSize |-> newGridSize,
        gridState |-> IF newGridSize = size THEN grid ELSE <<>>]

\* what updateGridSize sets: setGridSize(newGridSize); setGridState({}).
\* grid and size are the gridState and gridSize of its closure, which it
\* does not read.
updateGridSize(grid, size, mode, acres, length, width) ==
    [gridSize |-> NewGridSize(mode, acres, length, width), gridState |-> <<>>]

----------------------------------------------------------------------------
(* State: the useState cells of FoodForestPlanner and EconomicAnalysisTool *)
(* (searchTerm and selectedLayer, which only narrow the list of plant      *)
(* buttons, are left out), and pending.                                    *)

VARIABLES gridState, selectedPlant, climate, forestAge, score, profit,
          biodiversityScore, yieldScore, verticalScore, currentTool,
          showModal, modalPlant, propertySize, gridSize, sizeMode,
          customLength, customWidth, companionSuggestions, compatibilityAnalysis,
          setupCosts, annualCosts, income, netProfit, roi, pending

plannerVars == <<selectedPlant, climate, currentTool, showModal, modalPlant>>
scoreVars == <<score, profit, biodiversityScore, yieldScore, verticalScore>>
landVars == <<propertySize, sizeMode, customLength, customWidth>>
costVars == <<setupCosts, annualCosts>>
derivedVars == <<gridSize, companionSuggestions, compatibilityAnalysis, income, netProfit, roi>>

vars == <<gridState, forestAge, plannerVars, scoreVars, landVars, costVars, derivedVars, pending>>

\* the dependency lists of the five effects
IncomeDeps == {"gridState", "forestAge"}
\* NetProfitDeps with a fault: calculateNetProfit does not depend on income
NetProfitDepsNoIncome == {"setupCosts", "annualCosts", "forestAge"}
NetProfitDeps == {"income", "setupCosts", "annualCosts", "forestAge"}
DrawDeps == {"gridState", "gridSize"}
GridSizeDeps == {"propertySize", "sizeMode", "customLength", "customWidth"}
\* AnalysisDeps with a fault: the analysis is redone when the canvas is resized only
AnalysisDepsGridSize == {"gridSize"}
AnalysisDeps == {"gridState"}

AllDeps == IncomeDeps \cup NetProfitDeps \cup DrawDeps \cup GridSizeDeps \cup AnalysisDeps

\* no effect is waiting: the next thing to happen is a user event
Idle == pending = {}

\* the useState initial values; every effect runs after the first render
Init ==
    /\ gridState = <<>>
    /\ selectedPlant = Null
    /\ climate = "Tropical"
    /\ forestAge = 1
    /\ score = 0
    /\ profit = RInt(0)
    /\ biodiversityScore = 0
    /\ yieldScore = 0
    /\ verticalScore = 0
    /\ currentTool = "plant"
    /\ showModal = FALSE
    /\ modalPlant = Null
    /\ propertySize = 1
    /\ gridSize = Num(21)
    /\ sizeMode = "acre"
    /\ customLength = 0
    /\ customWidth = 0
    /\ companionSuggestions = <<>>
    /\ compatibilityAnalysis = [compatibilityReport |-> <<>>, incompatiblePairs |-> <<>>]
    /\ setupCosts = [landCost |-> 10000, soilPreparation |-> 2000, irrigation |-> 3000,
                     initialPlants |-> 1000, tools |-> 500]
    /\ annualCosts = [maintenance |-> 1000, water |-> 500, additionalPlants |-> 200]
    /\ income = EmptyMap
    /\ netProfit = RInt(0)
    /\ roi = RInt(0)
    /\ pending = AllDeps

----------------------------------------------------------------------------
(* The effects of one commit *)

RunEffects ==
    /\ pending # {}
    /\ LET runIncome == pending \cap IncomeDeps # {}
           runNetProfit == pending \cap NetProfitDeps # {}
           runDraw == pending \cap DrawDeps # {}
           runGridSize == pending \cap GridSizeDeps # {}
           runAnalysis == pending \cap AnalysisDeps # {}
           result == calculateNetProfit(income, setupCosts, annualCosts, forestAge)
           resized == updateGridSize(gridState, gridSize, sizeMode, propertySize,
                                     customLength, customWidth)
       IN /\ income' = IF runIncome THEN calculateIncome(gridState, forestAge) ELSE income
          /\ netProfit' = IF runNetProfit THEN result.netProfit ELSE netProfit
          /\ roi' = IF runNetProfit THEN result.roi ELSE roi
          /\ companionSuggestions' =
                IF runDraw THEN getCompanionSuggestions(PlacedNames(gridState))
                ELSE companionSuggestions
          /\ gridSize' = IF runGridSize THEN resized.gridSize ELSE gridSize
          /\ gridState' = IF runGridSize THEN resized.gridState ELSE gridState
          /\ compatibilityAnalysis' =
                IF runAnalysis THEN analyzePlantCompatibility(gridState)
                ELSE compatibilityAnalysis
          \* setIncome and setGridState store a new object; setGridSize
          \* changes the state when the number differs (Object.is)
          /\ pending' = (IF runIncome THEN {"income"} ELSE {})
                        \cup (IF runGridSize THEN {"gridState"} ELSE {})
                        \cup (IF runGridSize /\ resized.gridSize # gridSize
                              THEN {"gridSize"} ELSE {})
    /\ UNCHANGED <<forestAge, plannerVars, scoreVars, landVars, costVars>>

----------------------------------------------------------------------------
(* User events *)

\* the <select> of the climate
SetClimate(c) ==
    /\ Idle
    /\ c # climate
    /\ climate' = c
    /\ UNCHANGED <<gridState, forestAge, selectedPlant, currentTool, showModal, modalPlant,
                   scoreVars, landVars, costVars, derivedVars, pending>>

\* a plant button (filteredPlants: the plants of the climate)
SelectPlant(p) ==
    /\ Idle
    /\ p.climate = climate
    /\ selectedPlant' = p
    /\ UNCHANGED <<gridState, forestAge, climate, currentTool, showModal, modalPlant,
                   scoreVars, landVars, costVars, derivedVars, pending>>

SetCurrentTool(t) ==
    /\ Idle
    /\ t # currentTool
    /\ currentTool' = t
    /\ UNCHANGED <<gridState, forestAge, selectedPlant, climate, showModal, modalPlant,
                   scoreVars, landVars, costVars, derivedVars, pending>>

\* the canvas is gridSize * CELL_SIZE wide and high; with a width of NaN it
\* has the default size of a canvas, which holds every cell of the model
OnCanvas(x, y) == gridSize.nan \/ (x < gridSize.val /\ y < gridSize.val)

\* lastOccupant with a fault: the plant placed first, plantsAtLocation[0]
lastOccupantFirst(plantsAtLocation) == plantsAtLocation[1]

\* plantsAtLocation[plantsAtLocation.length - 1]
lastOccupant(plantsAtLocation) == plantsAtLocation[Len(plantsAtLocation)]

\* handleCanvasClick on cell (x, y).  The grid and forestAge read by
\* updateCompanionSuggestions and calculateScores are those of the render the
\* handler belongs to: the values before the click.
handleCanvasClick(x, y) ==
    /\ Idle
    /\ x >= 0 /\ y >= 0 /\ OnCanvas(x, y)
    /\ LET key == <<x, y>>
           plantsAtLocation == PlantsAt(gridState, key)
           scores == calculateScores(gridState, forestAge)
       IN /\ IF currentTool = "plant" /\ selectedPlant # Null
             THEN /\ gridState' = PlaceUpdater(gridState, key, selectedPlant)
                  /\ companionSuggestions' = getCompanionSuggestions(PlacedNames(gridState))
                  /\ UNCHANGED <<modalPlant, showModal>>
             ELSE IF currentTool = "eraser"
             THEN /\ gridState' = EraseUpdater(gridState, key)
                  /\ companionSuggestions' = getCompanionSuggestions(PlacedNames(gridState))
                  /\ UNCHANGED <<modalPlant, showModal>>
             ELSE IF currentTool = "info" /\ Len(plantsAtLocation) > 0
             THEN /\ modalPlant' = lastOccupant(plantsAtLocation)
                  /\ showModal' = TRUE
                  /\ UNCHANGED <<gridState, companionSuggestions>>
             ELSE UNCHANGED <<gridState, companionSuggestions, modalPlant, showModal>>
          /\ biodiversityScore' = scores.biodiversityScore
          /\ yieldScore' = scores.yieldScore
          /\ verticalScore' = scores.verticalScore
          /\ profit' = scores.profit
          /\ score' = scores.total
          \* the updater of the plant tool returns prevState itself when it
          \* rejects; the eraser always returns a new object
          /\ pending' = IF \/ currentTool = "eraser"
                           \/ (currentTool = "plant" /\ selectedPlant # Null
                               /\ gridState' # gridState)
                        THEN {"gridState"} ELSE {}
    /\ UNCHANGED <<forestAge, selectedPlant, climate, currentTool, landVars, costVars,
                   gridSize, compatibilityAnalysis, income, netProfit, roi>>

\* the close mark of the modal and onClose of the report: setShowModal(false)
CloseModal ==
    /\ Idle
    /\ showModal
    /\ showModal' = FALSE
    /\ pending' = {}
    /\ UNCHANGED <<gridState, forestAge, selectedPlant, climate, currentTool, modalPlant,
                   scoreVars, landVars, costVars, derivedVars>>

\* the button "View Full Report": setShowModal(true)
ViewFullReport ==
    /\ Idle
    /\ showModal' = TRUE
    /\ pending' = {}
    /\ UNCHANGED <<gridState, forestAge, selectedPlant, climate, currentTool, modalPlant,
                   scoreVars, landVars, costVars, derivedVars>>

\* the slider of the forest age
SetForestAge(a) ==
    /\ Idle
    /\ a # forestAge
    /\ forestAge' = a
    /\ pending' = {"forestAge"}
    /\ UNCHANGED <<gridState, plannerVars, scoreVars, landVars, costVars, derivedVars>>

SetSizeMode(m) ==
    /\ Idle
    /\ m # sizeMode
    /\ sizeMode' = m
    /\ pending' = {"sizeMode"}
    /\ UNCHANGED <<gridState, forestAge, plannerVars, scoreVars, propertySize,
                   customLength, customWidth, costVars, derivedVars>>

\* the input of the acres, shown in acre mode
SetPropertySize(v) ==
    /\ Idle
    /\ sizeMode = "acre"
    /\ v # propertySize
    /\ propertySize' = v
    /\ pending' = {"propertySize"}
    /\ UNCHANGED <<gridState, forestAge, plannerVars, scoreVars, sizeMode,
                   customLength, customWidth, costVars, derivedVars>>

\* the inputs of length and width, shown in custom mode
SetCustomLength(v) ==
    /\ Idle
    /\ sizeMode = "custom"
    /\ v # customLength
    /\ customLength' = v
    /\ pending' = {"customLength"}
    /\ UNCHANGED <<gridState, forestAge, plannerVars, scoreVars, sizeMode,
                   propertySize, customWidth, costVars, derivedVars>>

SetCustomWidth(v) ==
    /\ Idle
    /\ sizeMode = "custom"
    /\ v # customWidth
    /\ customWidth' = v
    /\ pending' = {"customWidth"}
    /\ UNCHANGED <<gridState, forestAge, plannerVars, scoreVars, sizeMode,
                   propertySize, customLength, costVars, derivedVars>>

\* setSetupCosts(prev => ({ ...prev, [key]: Number(value) })): a new object
handleSetupCostChange(key, value) ==
    /\ Idle
    /\ setupCosts' = [setupCosts EXCEPT ![key] = value]
    /\ pending' = {"setupCosts"}
    /\ UNCHANGED <<gridState, forestAge, plannerVars, scoreVars, landVars, annualCosts,
                   derivedVars>>

handleAnnualCostChange(key, value) ==
    /\ Idle
    /\ annualCosts' = [annualCosts EXCEPT ![key] = value]
    /\ pending' = {"annualCosts"}
    /\ UNCHANGED <<gridState, forestAge, plannerVars, scoreVars, landVars, setupCosts,
                   derivedVars>>

----------------------------------------------------------------------------------------------------------------------------------------
(* Inputs of the model, and its specifications.  Every specification       *)
(* starts from the first render and takes the user events of one part of   *)
(* the page; the variables the other events change keep their values.      *)

\* the cells that are clicked
Cells == {<<0, 0>>, <<1, 0>>}
ForestAges == {1, 5, 50}
SizeModes == {"acre", "custom"}
\* acres: negative, zero, the initial value, and one more
PropertySizes == {-1, 0, 1, 2}
\* feet: negative, zero, and two cells
CustomFeet == {-9, 0, 20}
PlantingTools == {"plant", "eraser"}

PlantCount == Len(Flatten(gridState))

\* a click that the bound on the placed instances lets through
BoundedClick(max) ==
    \E c \in Cells :
        /\ (currentTool = "plant" /\ selectedPlant # Null) => PlantCount < max
        /\ handleCanvasClick(c[1], c[2])

\* Planting: species of every climate, the plant tool and the eraser
Next ==
    \/ RunEffects
    \/ \E c \in Climates : SetClimate(c)
    \/ \E p \in Plants : SelectPlant(p)
    \/ \E t \in PlantingTools : SetCurrentTool(t)
    \/ BoundedClick(MaxPlants)

Spec == Init /\ [][Next]_vars

\* Dense planting: up to MaxCapPlants instances, of the species of one
\* climate at a time (the climate is changed on an empty grid only, and a
\* click is taken with a species of the climate), and the two size modes (a grid of 23 x 23 cells and one of a single cell)
NextCap ==
    \/ RunEffects
    \/ \E c \in Climates : gridState = <<>> /\ SetClimate(c)
    \/ \E p \in Plants : SelectPlant(p)
    \/ \E t \in PlantingTools : SetCurrentTool(t)
    \/ (selectedPlant # Null => selectedPlant.climate = climate) /\ BoundedClick(MaxCapPlants)
    \/ \E m \in SizeModes : SetSizeMode(m)

SpecCap == Init /\ [][NextCap]_vars

\* Land size: every input of the land-size specification, and the planting
\* of the species of the initial climate
NextLand ==
    \/ RunEffects
    \/ \E p \in Plants : SelectPlant(p)
    \/ BoundedClick(MaxLandPlants)
    \/ \E m \in SizeModes : SetSizeMode(m)
    \/ \E v \in PropertySizes : SetPropertySize(v)
    \/ \E v \in CustomFeet : SetCustomLength(v)
    \/ \E v \in CustomFeet : SetCustomWidth(v)

SpecLand == Init /\ [][NextLand]_vars

\* the amounts typed into the annual-cost input `key`: nothing, and for the
\* water a credit
ClearedAnnualCosts(key) == IF key = "water" THEN {0, -100} ELSE {0}

\* Cost clearing: every cost input is set to zero (the water also to a
\* credit), at every forest age, with up to MaxRoiPlants instances planted
NextRoi ==
    \/ RunEffects
    \/ \E p \in Plants : SelectPlant(p)
    \/ BoundedClick(MaxRoiPlants)
    \/ \E a \in ForestAges : SetForestAge(a)
    \/ \E k \in DOMAIN setupCosts : handleSetupCostChange(k, 0)
    \/ \E k \in DOMAIN annualCosts :
          \E v \in ClearedAnnualCosts(k) : handleAnnualCostChange(k, v)

SpecRoi == Init /\ [][NextRoi]_vars

\* Inspection: the three tools, the modal, and the planting of the species
\* of the initial climate
NextInspect ==
    \/ RunEffects
    \/ \E p \in Plants : SelectPlant(p)
    \/ \E t \in Tools : SetCurrentTool(t)
    \/ BoundedClick(MaxInspectPlants)
    \/ CloseModal
    \/ ViewFullReport

SpecInspect == Init /\ [][NextInspect]_vars

\* the species is behind every placed one in the catalog
InCatalogOrder(p) ==
    LET plantList == Flatten(gridState)
    IN \A i \in DOMAIN plantList : plantList[i].id < p.id

\* Diversity: every species of the catalog, in every climate, each planted
\* at most once, in the order of the catalog
NextDiversity ==
    \/ RunEffects
    \/ \E c \in Climates : SetClimate(c)
    \/ \E p \in AllPlants : InCatalogOrder(p) /\ SelectPlant(p)
    \/ /\ selectedPlant # Null => InCatalogOrder(selectedPlant)
       /\ \E c \in Cells : handleCanvasClick(c[1], c[2])

SpecDiversity == Init /\ [][NextDiversity]_vars

\* the cost inputs that are edited, and the amounts typed into them
EditedSetupCosts == {"landCost", "tools"}
EditedAnnualCosts == {"maintenance", "water"}
CostValues == {0, 500}

\* Economics: forest age and cost inputs, and the planting of the species
\* of the initial climate
NextEcon ==
    \/ RunEffects
    \/ \E p \in Plants : SelectPlant(p)
    \/ BoundedClick(MaxEconPlants)
    \/ \E a \in ForestAges : SetForestAge(a)
    \/ \E k \in EditedSetupCosts, v \in CostValues : handleSetupCostChange(k, v)
    \/ \E k \in EditedAnnualCosts, v \in CostValues : handleAnnualCostChange(k, v)

SpecEcon == Init /\ [][NextEcon]_vars

----------------------------------------------------------------------------
(* The claims *)

\* the caps as the specification states them
CapOfLayer(layer) ==
    IF layer = "Canopy" THEN 1 ELSE IF layer = "Shrub" THEN 4 ELSE 7

\* the cells that hold plants
OccupiedCells(grid) == {grid[i].key : i \in DOMAIN grid}

\* C1 - Density cap: in every reachable state, for every cell and every
\* layer L, the cell holds at most cap(L) instances of layer L (1 for
\* Canopy, 4 for Shrub, 7 for Root and for every other layer).
C1_DensityCap ==
    \A i \in DOMAIN gridState : \A l \in Layers :
        LayerCount(gridState[i].plants, l) <= CapOfLayer(l)

\* a Root cell at its cap of 7, on which a further Root click was taken and
\* left the grid as it was (the scores are those of this very grid)
C1_Witness ==
    /\ Idle /\ currentTool = "plant" /\ selectedPlant # Null /\ selectedPlant.layer = "Root"
    /\ PlantCount < MaxCapPlants
    /\ \E c \in Cells : LayerCount(PlantsAt(gridState, c), "Root") = 7
    /\ yieldScore = calculateScores(gridState, forestAge).yieldScore

\* C2 - Compatibility classification: of the pairs (A before B) of placed
\* instances, those where A lists B or B lists A are the compatible findings
\* and all the others the indeterminate ones, so that every pair is in
\* exactly one list and the two lists hold n(n-1)/2 findings.
C2_Classification ==
    LET plantList == Flatten(gridState)
        n == Len(plantList)
        analysis == analyzePlantCompatibility(gridState)
        pairs == {p \in (1 .. n) \X (1 .. n) : p[1] < p[2]}
        companions == {p \in pairs :
                          \/ Includes(plantList[p[1]].companions, plantList[p[2]].name)
                          \/ Includes(plantList[p[2]].companions, plantList[p[1]].name)}
    IN /\ Len(analysis.compatibilityReport) = Cardinality(companions)
       /\ Len(analysis.incompatiblePairs) = Cardinality(pairs \ companions)
       /\ Len(analysis.compatibilityReport) + Len(analysis.incompatiblePairs)
             = (n * (n - 1)) \div 2

\* C3 - the scores are recomputed on every mutation: a step that changes the
\* grid or the forest age leaves biodiversityScore, yieldScore,
\* verticalScore and profit equal to the score functions of the new grid
\* and the new forest age.  (No effect sets the scores: what the step
\* leaves is what stays once the effects have run.)
C3_ScoresCurrent ==
    [][ (gridState' # gridState \/ forestAge' # forestAge) =>
          LET scores == calculateScores(gridState', forestAge')
          IN /\ biodiversityScore' = scores.biodiversityScore
             /\ yieldScore' = scores.yieldScore
             /\ verticalScore' = scores.verticalScore
             /\ profit' = scores.profit ]_vars

\* C4 - Placement: a plant click on a cell whose count of the species'
\* layer is below the cap appends the species to the cell's sequence and
\* changes no other cell; at or above the cap it leaves the grid unchanged.
C4_Placement ==
    [][ \A c \in Cells :
          (currentTool = "plant" /\ selectedPlant # Null /\ handleCanvasClick(c[1], c[2])) =>
             LET prior == PlantsAt(gridState, c)
             IN IF LayerCount(prior, selectedPlant.layer) < CapOfLayer(selectedPlant.layer)
                THEN /\ PlantsAt(gridState', c) = Append(prior, selectedPlant)
                     /\ OccupiedCells(gridState') = OccupiedCells(gridState) \cup {c}
                     /\ \A d \in OccupiedCells(gridState) \ {c} :
                            PlantsAt(gridState', d) = PlantsAt(gridState, d)
                ELSE gridState' = gridState ]_vars

\* a click has just appended the selected species behind a different one,
\* and the cell is now at the cap of the species' layer
C4_Witness ==
    /\ pending = {"gridState"} /\ currentTool = "plant" /\ selectedPlant # Null
    /\ \E c \in Cells :
          LET plants == PlantsAt(gridState, c)
          IN /\ Len(plants) >= 2
             /\ plants[Len(plants)] = selectedPlant
             /\ plants[1] # selectedPlant
             /\ LayerCount(plants, selectedPlant.layer) = CapOfLayer(selectedPlant.layer)

\* the names of the land-size specification
LandSpec == {"propertySize", "sizeMode", "customLength", "customWidth"}

\* C5 - Resize clears state: a change of propertySize, sizeMode,
\* customLength or customWidth is followed, before any other event, by a
\* step that leaves the grid empty, whatever the resulting gridSize.
C5_ResizeClears ==
    [][ /\ (landVars' # landVars) => (pending' \cap LandSpec # {})
        /\ (pending \cap LandSpec # {}) => (gridState' = <<>>) ]_vars

\* a planted grid has just been reset by a change of the land size that left
\* gridSize as it was (gridSize is not among the changed dependencies; the
\* income, not yet recomputed, is that of the planted grid)
C5_Witness ==
    /\ gridState = <<>>
    /\ pending = {"gridState"}
    /\ income # EmptyMap
    /\ landVars # <<1, "acre", 0, 0>>

\* C6 - Removal: an eraser click on a cell removes the whole sequence of
\* the cell and changes no other cell; removing from an empty cell leaves
\* the grid contents as they are, and removing twice is removing once.
C6_Removal ==
    /\ [](\A c \in Cells :
             LET once == EraseUpdater(gridState, c)
             IN /\ EraseUpdater(once, c) = once
                /\ (~HasKey(gridState, c) => once = gridState))
    /\ [][ \A c \in Cells :
             (currentTool = "eraser" /\ handleCanvasClick(c[1], c[2])) =>
                /\ PlantsAt(gridState', c) = <<>>
                /\ OccupiedCells(gridState') = OccupiedCells(gridState) \ {c}
                /\ \A d \in OccupiedCells(gridState) \ {c} :
                       PlantsAt(gridState', d) = PlantsAt(gridState, d) ]_vars

\* the eraser has just removed a cell of two or more plants and left another
\* cell (verticalScore, of the grid before the click, counts ten per plant)
C6_Witness ==
    /\ currentTool = "eraser" /\ pending = {"gridState"}
    /\ gridState # <<>>
    /\ verticalScore >= 10 * (PlantCount + 2)

\* C7 - Companion suggestions: once the effects have run, the suggestion
\* list is, as a set, the companions of the placed species minus the names
\* of the placed species, without duplicates.
C7_Suggestions ==
    Idle =>
        LET plantList == Flatten(gridState)
            placed == {plantList[i].name : i \in DOMAIN plantList}
            listed == UNION {Range(plantList[i].companions) : i \in DOMAIN plantList}
        IN /\ Range(companionSuggestions) = listed \ placed
           /\ Cardinality(Range(companionSuggestions)) = Len(companionSuggestions)

\* C8 - Grid-size clamp: gridSize is an integer >= 1 in every reachable
\* state, for every land-size specification.
C8_GridSizeClamp == ~gridSize.nan /\ gridSize.val >= 1

\* C9 - No empty cell entries: every key of the grid maps to a non-empty
\* sequence.
C9_NoEmptyEntries == \A i \in DOMAIN gridState : gridState[i].plants # <<>>

\* the eraser has removed the last occupied cell: the grid is the empty
\* mapping again (the scores are those of the grid before the click)
C9_Witness ==
    /\ Idle /\ currentTool = "eraser"
    /\ gridState = <<>>
    /\ verticalScore > 0

RECURSIVE IncomeOfName(_, _, _)
\* the sum over the instances named n of yieldPerYear * min(1, age / maturityAge) * marketPrice
IncomeOfName(plants, n, age) ==
    IF plants = <<>> THEN RInt(0)
    ELSE LET p == Head(plants)
             amount == IF p.name = n
                       THEN Rat(p.yieldPerYear * p.marketPrice * Min(age, p.maturityAge), p.maturityAge)
                       ELSE RInt(0)
         IN RAdd(amount, IncomeOfName(Tail(plants), n, age))

projectIncome(grid, age) ==
    LET plantList == Flatten(grid)
    IN [n \in {plantList[i].name : i \in DOMAIN plantList} |-> IncomeOfName(plantList, n, age)]

\* C10 - Economic re-derivation: once the effects have run, income is
\* projectIncome of the current grid and forest age, netProfit is
\* (sum income - sum annualCosts) * forestAge - sum setupCosts, and roi is
\* netProfit / (sum setupCosts + sum annualCosts * forestAge) * 100, or 0
\* when that denominator is not positive.
C10_EconomicsCurrent ==
    Idle =>
        LET expected == projectIncome(gridState, forestAge)
            sumIncome == SumRatMap(expected, DOMAIN expected)
            sumSetup == SumMap(setupCosts, DOMAIN setupCosts)
            sumAnnual == SumMap(annualCosts, DOMAIN annualCosts)
            net == RSub(RMul(RSub(sumIncome, RInt(sumAnnual)), RInt(forestAge)), RInt(sumSetup))
            denominator == sumSetup + sumAnnual * forestAge
        IN /\ income = expected
           /\ netProfit = net
           /\ roi = IF denominator > 0 THEN Rat(net[1] * 100, net[2] * denominator) ELSE RInt(0)

\* a planted grid whose forest age and costs were changed after the planting
C10_Witness ==
    /\ Idle
    /\ PlantCount >= 2
    /\ forestAge = 5
    /\ setupCosts.landCost = 0
    /\ annualCosts.water = 0
    /\ yieldScore # calculateScores(gridState, forestAge).yieldScore

\* C11 - Compatibility re-analysis: once a placement, a removal or a reset
\* of the land size has been processed, the stored compatibilityAnalysis is
\* analyzePlantCompatibility of the current grid: its findings are taken over
\* the pairs of all the placed instances of the whole grid, pairs across
\* different cells included, and both lists are empty when the grid is empty.
C11_AnalysisCurrent ==
    Idle =>
        LET plantList == Flatten(gridState)
            n == Len(plantList)
            pairs == {p \in (1 .. n) \X (1 .. n) : p[1] < p[2]}
            listed == {p \in pairs : Includes(plantList[p[1]].companions, plantList[p[2]].name)}
            silent == {p \in pairs \ listed :
                          ~Includes(plantList[p[2]].companions, plantList[p[1]].name)}
        IN /\ compatibilityAnalysis = analyzePlantCompatibility(gridState)
           /\ Len(compatibilityAnalysis.compatibilityReport) = Cardinality(listed)
           /\ Len(compatibilityAnalysis.incompatiblePairs) = Cardinality(silent)
           /\ \A k \in DOMAIN compatibilityAnalysis.compatibilityReport :
                 \E p \in listed : compatibilityAnalysis.compatibilityReport[k]
                                      = <<plantList[p[1]].name, plantList[p[2]].name>>
           /\ (gridState = <<>> =>
                 compatibilityAnalysis = [compatibilityReport |-> <<>>, incompatiblePairs |-> <<>>])

\* two cells of one plant each, analysed after the second placement: the
\* only pair is across the cells, and it is reported
C11_Witness ==
    /\ Idle
    /\ Len(gridState) = 2
    /\ \A i \in DOMAIN gridState : Len(gridState[i].plants) = 1
    /\ Len(compatibilityAnalysis.compatibilityReport) = 1

\* C12 - Biodiversity monotonicity: the biodiversity score of a grid is
\* ten per distinct species name plus 50 when exactly seven distinct layers
\* are used, and placing one instance of a species whose name is not yet on
\* the grid never makes it smaller.
C12_BiodiversityMonotone ==
    LET names(plantList) == {plantList[i].name : i \in DOMAIN plantList}
        layers(plantList) == {plantList[i].layer : i \in DOMAIN plantList}
        expected(plantList) == Cardinality(names(plantList)) * 10
                                  + (IF Cardinality(layers(plantList)) = 7 THEN 50 ELSE 0)
        before == calculateScores(gridState, forestAge).biodiversityScore
    IN /\ before = expected(Flatten(gridState))
       /\ \A p \in AllPlants, c \in Cells :
             (p.name \notin names(Flatten(gridState)) /\ PlaceUpdater(gridState, c, p) # gridState) =>
                LET after == calculateScores(PlaceUpdater(gridState, c, p), forestAge).biodiversityScore
                IN /\ after = expected(Flatten(PlaceUpdater(gridState, c, p)))
                   /\ after >= before

\* an eighth species has been placed on a grid that used all the seven
\* layers already (biodiversityScore, of the grid before the click, is that
\* of seven names with the bonus)
C12_Witness ==
    /\ Idle
    /\ PlantCount = 8
    /\ biodiversityScore = 7 * 10 + 50
    /\ calculateScores(gridState, forestAge).biodiversityScore = 8 * 10 + 50

\* C13 - ROI zero guard: once the effects have run, roi is exactly 0
\* whenever the sum of the setup costs plus the sum of the annual costs
\* times the forest age is not positive (zero in particular), and is
\* netProfit divided by that amount, times 100, otherwise.
C13_RoiGuard ==
    Idle =>
        LET denominator == SumMap(setupCosts, DOMAIN setupCosts)
                              + SumMap(annualCosts, DOMAIN annualCosts) * forestAge
        IN IF denominator <= 0
           THEN roi = <<0, 1>>
           ELSE roi = Rat(netProfit[1] * 100, netProfit[2] * denominator)

\* every cost has been cleared under a planted grid: the denominator is
\* zero while the net profit is not
C13_Witness ==
    /\ Idle
    /\ SumMap(setupCosts, DOMAIN setupCosts) = 0
    /\ SumMap(annualCosts, DOMAIN annualCosts) = 0
    /\ netProfit[1] > 0
    /\ roi = <<0, 1>>

\* costs that cancel: the credit on the water, over five years, takes the
\* cost of the tools away; and over fifty years the denominator is negative
C13_WitnessCancel ==
    /\ Idle
    /\ SumMap(setupCosts, DOMAIN setupCosts) > 0
    /\ SumMap(setupCosts, DOMAIN setupCosts) + SumMap(annualCosts, DOMAIN annualCosts) * forestAge < 0
    /\ roi = <<0, 1>>

RECURSIVE FullYield(_)
\* the sum of yieldPerYear over the instances
FullYield(plants) ==
    IF plants = <<>> THEN 0 ELSE Head(plants).yieldPerYear + FullYield(Tail(plants))

RECURSIVE FullIncome(_)
\* the sum of yieldPerYear * marketPrice over the instances
FullIncome(plants) ==
    IF plants = <<>> THEN 0
    ELSE Head(plants).yieldPerYear * Head(plants).marketPrice + FullIncome(Tail(plants))

\* C14 - Yield scaling boundary: a placed instance whose maturityAge the
\* forest age has reached or passed has the factor 1: it adds exactly its
\* yieldPerYear to the yield total and exactly yieldPerYear * marketPrice to
\* the income, in calculateScores, calculateProfit and calculateIncome
\* alike, however far the forest age is beyond its maturityAge.
C14_MatureYield ==
    LET plantList == Flatten(gridState)
        without(i) == SubSeq(plantList, 1, i - 1) \o SubSeq(plantList, i + 1, Len(plantList))
        incomeSum(plants) == LET newIncome == IncomeFrom(EmptyMap, plants, forestAge)
                             IN SumRatMap(newIncome, DOMAIN newIncome)
        allMature == \A i \in DOMAIN plantList : forestAge >= plantList[i].maturityAge
    IN /\ \A i \in DOMAIN plantList :
             forestAge >= plantList[i].maturityAge =>
                /\ MaturityFactor(forestAge, plantList[i].maturityAge) = <<1, 1>>
                /\ RSub(TotalYield(plantList, forestAge), TotalYield(without(i), forestAge))
                      = <<plantList[i].yieldPerYear, 1>>
                /\ RSub(TotalIncome(plantList, forestAge), TotalIncome(without(i), forestAge))
                      = <<plantList[i].yieldPerYear * plantList[i].marketPrice, 1>>
                /\ RSub(incomeSum(plantList), incomeSum(without(i)))
                      = <<plantList[i].yieldPerYear * plantList[i].marketPrice, 1>>
       /\ allMature =>
             /\ calculateScores(gridState, forestAge).yieldScore = FullYield(plantList)
             /\ calculateProfit(gridState, forestAge)
                   = <<FullIncome(plantList) * forestAge - (1000 + 500 * forestAge), 1>>
             /\ Idle => SumRatMap(income, DOMAIN income) = <<FullIncome(plantList), 1>>

\* fifty years on, a grid with the species that matures in five years and
\* the one that matures in one: the stored income is the full income
C14_Witness ==
    /\ Idle
    /\ forestAge = 50
    /\ {"Mango", "Lemongrass"} \subseteq DOMAIN income
    /\ income["Mango"] = <<50 * 2, 1>>

\* C15 - Inspection: an info click on an occupied cell selects the last
\* element of the cell's sequence (and shows it); an info click on an empty
\* cell makes no selection (what is selected and shown stays as it was);
\* both leave the grid as it is, and so does a plant click when no species
\* is selected.
C15_Inspection ==
    [][ \A c \in Cells :
          /\ (currentTool = "info" /\ handleCanvasClick(c[1], c[2])) =>
                LET sequence == PlantsAt(gridState, c)
                IN /\ gridState' = gridState
                   /\ IF sequence # <<>>
                      THEN modalPlant' = sequence[Len(sequence)] /\ showModal'
                      ELSE UNCHANGED <<modalPlant, showModal>>
          /\ (currentTool = "plant" /\ selectedPlant = Null /\ handleCanvasClick(c[1], c[2])) =>
                UNCHANGED <<gridState, modalPlant, showModal>> ]_vars

\* a cell of two different species has been inspected: the modal shows the
\* one placed last
C15_Witness ==
    /\ currentTool = "info" /\ showModal
    /\ \E c \in Cells :
          LET sequence == PlantsAt(gridState, c)
          IN /\ Len(sequence) >= 2
             /\ modalPlant = sequence[Len(sequence)]
             /\ modalPlant # sequence[1]

====
